---- MODULE Spec2Model ----
(***************************************************************************)
(* Resume contact extraction: the regex stage, the AI fallback and the     *)
(* orchestrator process_resume (ai_parser.py), the per-file pipeline and   *)
(* the batch loop (app.py), the extraction log (extraction_logger.py) and  *)
(* the spreadsheet export (excel_exporter.py).                             *)
(*                                                                         *)
(* A Python str is a sequence of one-character strings; a Python value     *)
(* that may be None is a record [t, s] (see None and Str).                 *)
(***************************************************************************)
EXTENDS Integers, Sequences, FiniteSets, TLC

(***************************************************************************)
(* Characters and the str methods the code uses.                           *)
(***************************************************************************)
LowerSeq == <<"a","b","c","d","e","f","g","h","i","j","k","l","m","n","o","p","q","r","s","t","u","v","w","x","y","z">>
UpperSeq == <<"A","B","C","D","E","F","G","H","I","J","K","L","M","N","O","P","Q","R","S","T","U","V","W","X","Y","Z">>
DigitSeq == <<"0","1","2","3","4","5","6","7","8","9">>

Range(f) == {f[i] : i \in DOMAIN f}
LowerSet == Range(LowerSeq)
UpperSet == Range(UpperSeq)
Letters == LowerSet \cup UpperSet
Digits == Range(DigitSeq)
\* [2-9]
Digits29 == Digits \ {"0", "1"}
\* \s
Whitespace == {" ", "\n", "\t"}
\* [\s.-]
PhoneSep == Whitespace \cup {".", "-"}

SetMin(S) == CHOOSE x \in S : \A y \in S : x <= y
SetMax(S) == CHOOSE x \in S : \A y \in S : x >= y

None == [t |-> "none", s |-> <<>>]
Str(chars) == [t |-> "str", s |-> chars]
\* Python truthiness of an Optional[str]: None and '' are falsy
Truthy(v) == v.t = "str" /\ v.s # <<>>

\* c.lower() and c.upper() of one character
lower(c) == IF c \in UpperSet THEN LowerSeq[CHOOSE i \in 1..26 : UpperSeq[i] = c] ELSE c
upper(c) == IF c \in LowerSet THEN UpperSeq[CHOOSE i \in 1..26 : LowerSeq[i] = c] ELSE c
\* s.lower()
str_lower(s) == [i \in 1..Len(s) |-> lower(s[i])]
\* s.startswith(p)
startswith(s, p) == Len(s) >= Len(p) /\ SubSeq(s, 1, Len(p)) = p
\* s.strip()
strip(s) ==
    LET keep == {i \in 1..Len(s) : s[i] \notin Whitespace}
    IN  IF keep = {} THEN <<>> ELSE SubSeq(s, SetMin(keep), SetMax(keep))
\* needle in s, for a non-empty needle
contains(s, needle) ==
    \E i \in 1..(Len(s) - Len(needle) + 1) : SubSeq(s, i, i + Len(needle) - 1) = needle
\* s with every character of the set drop removed
RECURSIVE remove_chars(_, _)
remove_chars(s, drop) ==
    IF s = <<>> THEN <<>>
    ELSE (IF s[1] \in drop THEN <<>> ELSE <<s[1]>>) \o remove_chars(Tail(s), drop)
\* the pieces of s between separator characters (str.split(sep), re.split('[...]'))
RECURSIVE split(_, _)
split(s, seps) ==
    LET at == {i \in 1..Len(s) : s[i] \in seps}
    IN  IF at = {} THEN <<s>>
        ELSE <<SubSeq(s, 1, SetMin(at) - 1)>> \o split(SubSeq(s, SetMin(at) + 1, Len(s)), seps)
\* s.split(): the whitespace-separated words
split_words(s) == SelectSeq(split(s, Whitespace), LAMBDA w : w # <<>>)
\* sep.join(parts)
RECURSIVE join(_, _)
join(sep, parts) ==
    IF parts = <<>> THEN <<>>
    ELSE IF Len(parts) = 1 THEN parts[1]
    ELSE parts[1] \o sep \o join(sep, Tail(parts))
\* s.endswith(p)
endswith(s, p) == Len(s) >= Len(p) /\ SubSeq(s, Len(s) - Len(p) + 1, Len(s)) = p
\* s.isalpha(), s.isupper(), s.capitalize()
isalpha(s) == s # <<>> /\ \A i \in 1..Len(s) : s[i] \in Letters
isupper(s) == (\E i \in 1..Len(s) : s[i] \in UpperSet) /\ (\A i \in 1..Len(s) : s[i] \notin LowerSet)
capitalize(s) == [i \in 1..Len(s) |-> IF i = 1 THEN upper(s[i]) ELSE lower(s[i])]
\* last index of the maximal run of characters of cls that starts at i (i-1: no run)
RunEnd(s, i, cls) ==
    LET stop == {j \in i..Len(s) : s[j] \notin cls}
    IN  IF stop = {} THEN Len(s) ELSE SetMin(stop) - 1

(***************************************************************************)
(* Pattern library.                                                        *)
(***************************************************************************)
EmailLocalChars == Letters \cup Digits \cup {".", "_", "%", "+", "-"}
EmailDomainChars == Letters \cup Digits \cup {".", "-"}

\* EMAIL_PATTERN matched at position i: the index of the last character of
\* the match, 0 when there is none.  The greedy local part must run up to an
\* '@'; the greedy domain part backtracks to the last '.' that is followed by
\* at least two letters, and the top-level domain takes every letter.
EMAIL_PATTERN(text, i) ==
    LET at == RunEnd(text, i, EmailLocalChars) + 1
    IN  IF at > i /\ at <= Len(text) /\ text[at] = "@"
        THEN LET m == RunEnd(text, at + 1, EmailDomainChars)
                 dots == {p \in (at + 1)..(m - 1) :
                             /\ text[p + 1] = "."
                             /\ p + 3 <= Len(text)
                             /\ text[p + 2] \in Letters
                             /\ text[p + 3] \in Letters}
             IN  IF dots = {} THEN 0 ELSE RunEnd(text, SetMax(dots) + 2, Letters)
        ELSE 0

\* One element of a phone pattern: a character class, optional or not.  An
\* optional class is always disjoint from the class that follows it, so a
\* greedy match without backtracking is the regex match.
Lit(c) == [cls |-> {c}, opt |-> FALSE]
One(cls) == [cls |-> cls, opt |-> FALSE]
Opt(cls) == [cls |-> cls, opt |-> TRUE]
RECURSIVE Rep(_, _)
Rep(items, n) == IF n = 0 THEN <<>> ELSE items \o Rep(items, n - 1)

PHONE_PATTERNS ==
    << \* \+61\s?[2-9](?:[\s.-]?\d){8}
       <<Lit("+"), Lit("6"), Lit("1"), Opt(Whitespace), One(Digits29)>>
           \o Rep(<<Opt(PhoneSep), One(Digits)>>, 8),
       \* \+61\s?4\d{2}(?:[\s.-]?\d){6}
       <<Lit("+"), Lit("6"), Lit("1"), Opt(Whitespace), Lit("4"), One(Digits), One(Digits)>>
           \o Rep(<<Opt(PhoneSep), One(Digits)>>, 6),
       \* 04\d{2}[\s.-]?\d{3}[\s.-]?\d{3}
       <<Lit("0"), Lit("4"), One(Digits), One(Digits), Opt(PhoneSep)>>
           \o Rep(<<One(Digits)>>, 3) \o <<Opt(PhoneSep)>> \o Rep(<<One(Digits)>>, 3),
       \* 04\d{8}
       <<Lit("0"), Lit("4")>> \o Rep(<<One(Digits)>>, 8),
       \* 0[2-9]\d{2}[\s.-]?\d{3}[\s.-]?\d{3}
       <<Lit("0"), One(Digits29), One(Digits), One(Digits), Opt(PhoneSep)>>
           \o Rep(<<One(Digits)>>, 3) \o <<Opt(PhoneSep)>> \o Rep(<<One(Digits)>>, 3),
       \* 0[2-9]\s?\d{4}\s?\d{4}
       <<Lit("0"), One(Digits29), Opt(Whitespace)>>
           \o Rep(<<One(Digits)>>, 4) \o <<Opt(Whitespace)>> \o Rep(<<One(Digits)>>, 4),
       \* \(\+?61\)\s?[2-9](?:[\s.-]?\d){8}
       <<Lit("("), Opt({"+"}), Lit("6"), Lit("1"), Lit(")"), Opt(Whitespace), One(Digits29)>>
           \o Rep(<<Opt(PhoneSep), One(Digits)>>, 8),
       \* \+61\s?[2-9]\d{8}
       <<Lit("+"), Lit("6"), Lit("1"), Opt(Whitespace), One(Digits29)>>
           \o Rep(<<One(Digits)>>, 8),
       \* 0[2-9]\d{8}
       <<Lit("0"), One(Digits29)>> \o Rep(<<One(Digits)>>, 8) >>

\* the alternatives of the optional label group, in the order the regex tries them
PhoneLabels == << <<"p","h","o","n","e">>, <<"m","o","b","i","l","e">>, <<"t","e","l">>, <<"p","h">> >>

SKIP_WORDS ==
    {<<"r","e","s","u","m","e">>,
     <<"c","v">>,
     <<"c","u","r","r","i","c","u","l","u","m">>,
     <<"v","i","t","a","e">>,
     <<"p","r","o","f","i","l","e">>,
     <<"s","u","m","m","a","r","y">>,
     <<"o","b","j","e","c","t","i","v","e">>,
     <<"e","x","p","e","r","i","e","n","c","e">>,
     <<"e","d","u","c","a","t","i","o","n">>,
     <<"s","k","i","l","l","s">>,
     <<"c","o","n","t","a","c","t">>,
     <<"p","h","o","n","e">>,
     <<"e","m","a","i","l">>,
     <<"a","d","d","r","e","s","s">>,
     <<"m","o","b","i","l","e">>,
     <<"t","e","l">>,
     <<"l","i","n","k","e","d","i","n">>,
     <<"g","i","t","h","u","b">>,
     <<"p","o","r","t","f","o","l","i","o">>,
     <<"w","e","b","s","i","t","e">>,
     <<"r","e","f","e","r","e","n","c","e","s">>,
     <<"p","e","r","s","o","n","a","l">>,
     <<"p","r","o","f","e","s","s","i","o","n","a","l">>,
     <<"c","a","r","e","e","r">>,
     <<"w","o","r","k">>,
     <<"e","m","p","l","o","y","m","e","n","t">>,
     <<"h","i","s","t","o","r","y">>,
     <<"b","a","c","k","g","r","o","u","n","d">>,
     <<"o","v","e","r","v","i","e","w">>,
     <<"i","n","t","r","o","d","u","c","t","i","o","n">>,
     <<"a","b","o","u","t">>,
     <<"m","e">>,
     <<"c","e","r","t","i","f","i","c","a","t","i","o","n","s">>,
     <<"c","e","r","t","i","f","i","c","a","t","e","s">>,
     <<"t","r","a","i","n","i","n","g">>,
     <<"q","u","a","l","i","f","i","c","a","t","i","o","n","s">>}

NAME_PREFIXES ==
    {<<"m","r">>, <<"m","r","s">>, <<"m","s">>, <<"m","i","s","s">>,
     <<"d","r">>, <<"p","r","o","f">>, <<"s","i","r">>, <<"m","a","d","a","m">>}

(***************************************************************************)
(* Field extractors (the regex stage).                                     *)
(***************************************************************************)
\* EMAIL_PATTERN.search(text): the leftmost match
extract_email(text) ==
    LET starts == {i \in 1..Len(text) : EMAIL_PATTERN(text, i) > 0}
    IN  IF starts = {} THEN None
        ELSE Str(SubSeq(text, SetMin(starts), EMAIL_PATTERN(text, SetMin(starts))))

\* the elements pat[k..] matched at position pos: the position after the match, 0 on failure
RECURSIVE MatchItems(_, _, _, _)
MatchItems(pat, k, s, pos) ==
    IF k > Len(pat) THEN pos
    ELSE IF pos <= Len(s) /\ s[pos] \in pat[k].cls THEN MatchItems(pat, k + 1, s, pos + 1)
    ELSE IF pat[k].opt THEN MatchItems(pat, k + 1, s, pos)
    ELSE 0

\* the label alternative  word:?\s*  matched at q: the position after it, 0 on failure
LabelEnd(s, q, word) ==
    IF q + Len(word) - 1 <= Len(s) /\ str_lower(SubSeq(s, q, q + Len(word) - 1)) = word
    THEN LET a == q + Len(word)
             b == IF a <= Len(s) /\ s[a] = ":" THEN a + 1 ELSE a
         IN  RunEnd(s, b, Whitespace) + 1
    ELSE 0

\* one pattern tried at start position q: <<first, last>> of group(1), <<0, 0>> on failure.
\* The label alternatives are tried before the empty alternative.
RECURSIVE PatternAt(_, _, _, _)
PatternAt(pat, s, q, alt) ==
    LET p == IF alt <= Len(PhoneLabels) THEN LabelEnd(s, q, PhoneLabels[alt]) ELSE q
        e == IF p = 0 THEN 0 ELSE MatchItems(pat, 1, s, p)
    IN  IF e # 0 THEN <<p, e - 1>>
        ELSE IF alt <= Len(PhoneLabels) THEN PatternAt(pat, s, q, alt + 1)
        ELSE <<0, 0>>

\* pattern.search(text): group(1) of the leftmost match
PatternSearch(pat, s) ==
    LET starts == {q \in 1..Len(s) : PatternAt(pat, s, q, 1) # <<0, 0>>}
    IN  IF starts = {} THEN <<0, 0>> ELSE PatternAt(pat, s, SetMin(starts), 1)

\* re.sub(r'[\s.-]+', ' ', phone)
RECURSIVE collapse_separators(_)
collapse_separators(s) ==
    IF s = <<>> THEN <<>>
    ELSE IF s[1] \in PhoneSep
         THEN <<" ">> \o collapse_separators(SubSeq(s, RunEnd(s, 1, PhoneSep) + 1, Len(s)))
         ELSE <<s[1]>> \o collapse_separators(Tail(s))

RECURSIVE extract_phone_from(_, _)
extract_phone_from(text, n) ==
    IF n > Len(PHONE_PATTERNS) THEN None
    ELSE LET m == PatternSearch(PHONE_PATTERNS[n], text)
             phone == strip(collapse_separators(SubSeq(text, m[1], m[2])))
             digits_only == SelectSeq(phone, LAMBDA c : c \in Digits)
         IN  IF m # <<0, 0>> /\ 9 <= Len(digits_only) /\ Len(digits_only) <= 12
             THEN Str(phone)
             ELSE extract_phone_from(text, n + 1)

extract_phone(text) == extract_phone_from(text, 1)

\* the line is a section header: it equals a skip word or starts with one
\* followed by ':' or ' ', and what follows the word does not start with an
\* upper-case letter
is_skipped(line) ==
    LET lower_line == str_lower(line)
    IN  \E skip_word \in SKIP_WORDS :
            /\ \/ lower_line = skip_word
               \/ startswith(lower_line, skip_word \o <<":">>)
               \/ startswith(lower_line, skip_word \o <<" ">>)
            /\ LET rest == strip(SubSeq(line, Len(skip_word) + 1, Len(line)))
               IN  ~(rest # <<>> /\ rest[1] \in UpperSet)

\* the line without a leading honorific (no two prefixes match the same line)
strip_prefix(line) ==
    LET lower_line == str_lower(line)
        hits == {prefix \in NAME_PREFIXES :
                    \/ startswith(lower_line, prefix \o <<" ">>)
                    \/ startswith(lower_line, prefix \o <<".">>)}
    IN  IF hits = {} THEN line
        ELSE LET prefix == CHOOSE p \in hits : TRUE
                 cleaned == strip(SubSeq(line, Len(prefix) + 1, Len(line)))
             IN  IF startswith(cleaned, <<".">>) THEN strip(Tail(cleaned)) ELSE cleaned

is_valid_word(word) ==
    LET clean_word == remove_chars(word, {"-", "'", "."})
    IN  \/ clean_word # <<>> /\ clean_word[1] \in UpperSet /\ isalpha(clean_word)
        \/ isupper(clean_word) /\ Len(clean_word) > 1

\* the name a line yields, None when the line is rejected
name_of_line(raw) ==
    LET line == strip(raw)
        digit_count == Cardinality({i \in 1..Len(line) : line[i] \in Digits})
        cleaned_line == strip_prefix(line)
        words == split_words(cleaned_line)
    IN  IF \/ Len(line) < 3
           \/ is_skipped(line)
           \/ "@" \in Range(line)
           \/ digit_count > 3
           \/ Len(line) > 60
        THEN None
        ELSE IF /\ 1 <= Len(words) /\ Len(words) <= 5
                /\ \A i \in 1..Len(words) : is_valid_word(words[i])
             THEN Str(cleaned_line)
             ELSE None

RECURSIVE extract_name_from(_, _)
extract_name_from(lines, n) ==
    IF n > Len(lines) \/ n > 15 THEN None
    ELSE IF name_of_line(lines[n]) # None THEN name_of_line(lines[n])
    ELSE extract_name_from(lines, n + 1)

extract_name(text) == extract_name_from(split(text, {"\n"}), 1)

extract_name_from_email(email) ==
    IF ~Truthy(email) THEN None
    ELSE LET local_part == remove_chars(split(email.s, {"@"})[1], Digits)
             parts == split(local_part, {".", "_", "-"})
             long == SelectSeq(parts, LAMBDA part : Len(part) > 1)
             name_parts == [i \in 1..Len(long) |-> capitalize(long[i])]
         IN  IF Len(name_parts) >= 2 THEN Str(join(<<" ">>, name_parts)) ELSE None

extract_with_regex(text) ==
    LET email == extract_email(text)
        phone == extract_phone(text)
        name == extract_name(text)
    IN  [name |-> IF ~Truthy(name) /\ Truthy(email) THEN extract_name_from_email(email) ELSE name,
         email |-> email,
         phone |-> phone]

(***************************************************************************)
(* The completion service and the AI stage.                                *)
(*                                                                         *)
(* What the service does with one request is the record resp:              *)
(*   kind    "timeout", "connection" (any other RequestException, whose    *)
(*           text is detail) or "http" (a response with a status)          *)
(*   body    of a 200 response: shape "content" (choices[0].message.content*)
(*           is the token sequence content), "no_choices" (no choices key),*)
(*           "empty_choices" (choices is []), "null_message" (message is   *)
(*           null), "null_content" (content is null)                       *)
(* The content is a sequence of tokens: a ``` fence, the word json, other  *)
(* text, or a JSON value (an object with name/email/phone, or an array).   *)
(***************************************************************************)
MSG_NO_KEY == <<"N","o"," ","A","P","I"," ","k","e","y"," ","c","o","n","f","i","g","u","r","e","d">>
MSG_NO_IMAGES == <<"N","o"," ","i","m","a","g","e","s"," ","p","r","o","v","i","d","e","d">>
MSG_CREDITS == <<"I","n","s","u","f","f","i","c","i","e","n","t"," ","A","I"," ","c","r","e","d","i","t","s">>
MSG_RATE_LIMIT == <<"A","I"," ","r","a","t","e"," ","l","i","m","i","t"," ","e","x","c","e","e","d","e","d">>
MSG_API_ERROR == <<"A","I"," ","A","P","I"," ","e","r","r","o","r",":"," ">>
MSG_PARSE == <<"F","a","i","l","e","d"," ","t","o"," ","p","a","r","s","e"," ","A","I"," ","r","e","s","p","o","n","s","e">>
MSG_TIMEOUT == <<"A","I"," ","r","e","q","u","e","s","t"," ","t","i","m","e","d"," ","o","u","t">>
MSG_REQUEST_FAILED == <<"A","I"," ","r","e","q","u","e","s","t"," ","f","a","i","l","e","d",":"," ">>
MSG_VISION_TIMEOUT == <<"A","I"," ","v","i","s","i","o","n"," ","r","e","q","u","e","s","t"," ","t","i","m","e","d"," ","o","u","t">>
MSG_VISION_FAILED == <<"A","I"," ","v","i","s","i","o","n"," ","r","e","q","u","e","s","t"," ","f","a","i","l","e","d",":"," ">>

\* str(e) of the exceptions that are not caught
EXC_INDEX == <<"l","i","s","t"," ","i","n","d","e","x"," ","o","u","t"," ","o","f"," ","r","a","n","g","e">>
EXC_NONE_GET == <<"'","N","o","n","e","T","y","p","e","'"," ","o","b","j","e","c","t"," ","h","a","s"," ","n","o"," ","a","t","t","r","i","b","u","t","e"," ","'","g","e","t","'">>
EXC_NONE_ITER == <<"a","r","g","u","m","e","n","t"," ","o","f"," ","t","y","p","e"," ","'","N","o","n","e","T","y","p","e","'"," ","i","s"," ","n","o","t"," ","i","t","e","r","a","b","l","e">>
EXC_LIST_GET == <<"'","l","i","s","t","'"," ","o","b","j","e","c","t"," ","h","a","s"," ","n","o"," ","a","t","t","r","i","b","u","t","e"," ","'","g","e","t","'">>

TEXT_TIMEOUT == 30
VISION_TIMEOUT == 60
\* text[:6000]
TEXT_LIMIT == 6000

\* str(n) of a natural number
RECURSIVE int_str(_)
int_str(n) == IF n < 10 THEN <<DigitSeq[n + 1]>> ELSE int_str(n \div 10) \o <<DigitSeq[(n % 10) + 1]>>

NoFields == [name |-> None, email |-> None, phone |-> None]
Fields == {"name", "email", "phone"}

Tok(kind, data) == [k |-> kind, data |-> data]
FENCE == Tok("fence", NoFields)
JSON_WORD == Tok("json", NoFields)
TEXT_TOK == Tok("text", NoFields)
ARRAY_TOK == Tok("array", NoFields)
ObjectTok(data) == Tok("object", data)

\* the outcomes of an AI call: the returned tuple (data, success, error), or an
\* exception that leaves the function; requests are the requests it sent
AiReturn(data, success, error, requests) ==
    [raised |-> FALSE, exc |-> <<>>, data |-> data, success |-> success, error |-> error,
     requests |-> requests]
AiRaise(exc, requests) ==
    [raised |-> TRUE, exc |-> exc, data |-> NoFields, success |-> FALSE, error |-> None,
     requests |-> requests]

get_api_key(env) == env

\* json.loads(content.strip()) followed by the three data.get calls: a single
\* JSON object gives its fields, any other single JSON value makes data.get
\* raise AttributeError, anything else is a JSONDecodeError
json_loads(content) ==
    IF Len(content) = 1 /\ content[1].k \in {"object", "array"}
    THEN [ok |-> TRUE, is_dict |-> content[1].k = "object", data |-> content[1].data]
    ELSE [ok |-> FALSE, is_dict |-> FALSE, data |-> NoFields]

\* the handling of a response, shared by the text and the vision call
\* (ai_parser.py 233-257 and 333-357)
handle_response(resp, requests) ==
    IF resp.status = 402 THEN AiReturn(NoFields, FALSE, Str(MSG_CREDITS), requests)
    ELSE IF resp.status = 429 THEN AiReturn(NoFields, FALSE, Str(MSG_RATE_LIMIT), requests)
    ELSE IF resp.status # 200
         THEN AiReturn(NoFields, FALSE, Str(MSG_API_ERROR \o int_str(resp.status)), requests)
    \* [][0], None.get and '```' in None: IndexError, AttributeError and
    \* TypeError, none of which is caught
    ELSE IF resp.body.shape = "empty_choices" THEN AiRaise(EXC_INDEX, requests)
    ELSE IF resp.body.shape = "null_message" THEN AiRaise(EXC_NONE_GET, requests)
    ELSE IF resp.body.shape = "null_content" THEN AiRaise(EXC_NONE_ITER, requests)
    ELSE LET content == IF resp.body.shape = "no_choices" THEN <<>> ELSE resp.body.content
             inner == IF FENCE \in Range(content) THEN split(content, {FENCE})[2] ELSE content
             unfenced == IF startswith(inner, <<JSON_WORD>>) THEN Tail(inner) ELSE inner
             loaded == json_loads(unfenced)
         IN  IF ~loaded.ok THEN AiReturn(NoFields, FALSE, Str(MSG_PARSE), requests)
             ELSE IF ~loaded.is_dict THEN AiRaise(EXC_LIST_GET, requests)
             ELSE AiReturn(loaded.data, TRUE, None, requests)

\* extract_with_ai_text with a second request after a timeout
extract_with_ai_text_retry(text, env, resp) ==
    LET api_key == get_api_key(env)
        text_truncated == IF Len(text) > TEXT_LIMIT THEN SubSeq(text, 1, TEXT_LIMIT) ELSE text
        requests == <<[kind |-> "text", timeout |-> TEXT_TIMEOUT, text |-> text_truncated]>>
    IN  IF ~Truthy(api_key) THEN AiReturn(NoFields, FALSE, Str(MSG_NO_KEY), <<>>)
        ELSE IF resp.kind = "timeout"
             THEN AiReturn(NoFields, FALSE, Str(MSG_TIMEOUT), requests \o requests)
        ELSE IF resp.kind = "connection"
             THEN AiReturn(NoFields, FALSE, Str(MSG_REQUEST_FAILED \o resp.detail), requests)
        ELSE handle_response(resp, requests)

\* extract_with_ai_text with the except clauses in the other order: Timeout is
\* a RequestException, and is reported as one
extract_with_ai_text_except_order(text, env, resp) ==
    LET api_key == get_api_key(env)
        text_truncated == IF Len(text) > TEXT_LIMIT THEN SubSeq(text, 1, TEXT_LIMIT) ELSE text
        requests == <<[kind |-> "text", timeout |-> TEXT_TIMEOUT, text |-> text_truncated]>>
    IN  IF ~Truthy(api_key) THEN AiReturn(NoFields, FALSE, Str(MSG_NO_KEY), <<>>)
        ELSE IF resp.kind \in {"timeout", "connection"}
             THEN AiReturn(NoFields, FALSE, Str(MSG_REQUEST_FAILED \o resp.detail), requests)
        ELSE handle_response(resp, requests)

extract_with_ai_text(text, env, resp) ==
    LET api_key == get_api_key(env)
        text_truncated == IF Len(text) > TEXT_LIMIT THEN SubSeq(text, 1, TEXT_LIMIT) ELSE text
        requests == <<[kind |-> "text", timeout |-> TEXT_TIMEOUT, text |-> text_truncated]>>
    IN  IF ~Truthy(api_key) THEN AiReturn(NoFields, FALSE, Str(MSG_NO_KEY), <<>>)
        ELSE IF resp.kind = "timeout" THEN AiReturn(NoFields, FALSE, Str(MSG_TIMEOUT), requests)
        ELSE IF resp.kind = "connection"
             THEN AiReturn(NoFields, FALSE, Str(MSG_REQUEST_FAILED \o resp.detail), requests)
        ELSE handle_response(resp, requests)

\* extract_with_ai_vision with the test "api_key is None" for "not api_key"
extract_with_ai_vision_none_check(images, env, resp) ==
    LET api_key == get_api_key(env)
        requests == <<[kind |-> "vision", timeout |-> VISION_TIMEOUT, text |-> <<>>]>>
    IN  IF api_key = None THEN AiReturn(NoFields, FALSE, Str(MSG_NO_KEY), <<>>)
        ELSE IF images = <<>> THEN AiReturn(NoFields, FALSE, Str(MSG_NO_IMAGES), <<>>)
        ELSE IF resp.kind = "timeout" THEN AiReturn(NoFields, FALSE, Str(MSG_VISION_TIMEOUT), requests)
        ELSE IF resp.kind = "connection"
             THEN AiReturn(NoFields, FALSE, Str(MSG_VISION_FAILED \o resp.detail), requests)
        ELSE handle_response(resp, requests)

\* images is the list of page images; None and [] are both the empty sequence
extract_with_ai_vision(images, env, resp) ==
    LET api_key == get_api_key(env)
        requests == <<[kind |-> "vision", timeout |-> VISION_TIMEOUT, text |-> <<>>]>>
    IN  IF ~Truthy(api_key) THEN AiReturn(NoFields, FALSE, Str(MSG_NO_KEY), <<>>)
        ELSE IF images = <<>> THEN AiReturn(NoFields, FALSE, Str(MSG_NO_IMAGES), <<>>)
        ELSE IF resp.kind = "timeout" THEN AiReturn(NoFields, FALSE, Str(MSG_VISION_TIMEOUT), requests)
        ELSE IF resp.kind = "connection"
             THEN AiReturn(NoFields, FALSE, Str(MSG_VISION_FAILED \o resp.detail), requests)
        ELSE handle_response(resp, requests)

\* check_ai_credits without the message
check_ai_credits_no_error(env) ==
    IF ~Truthy(get_api_key(env))
    THEN [has_credits |-> FALSE, error |-> None]
    ELSE [has_credits |-> TRUE, error |-> None]

check_ai_credits(env) ==
    IF ~Truthy(get_api_key(env))
    THEN [has_credits |-> FALSE, error |-> Str(MSG_NO_KEY)]
    ELSE [has_credits |-> TRUE, error |-> None]

(***************************************************************************)
(* The orchestrator.  The outcome of a call is a record: raised (an        *)
(* exception left process_resume), result (the returned dictionary),       *)
(* regex_result (the local variable of line 413, NoFields on the vision   *)
(* path where it is never computed), path and the requests sent.           *)
(***************************************************************************)
NoResult == [name |-> None, email |-> None, phone |-> None, ai_used |-> FALSE, error |-> None]

Returned(result, regex_result, path, requests) ==
    [raised |-> FALSE, exc |-> <<>>, result |-> result, regex_result |-> regex_result,
     path |-> path, requests |-> requests]
Raised(exc, regex_result, path, requests) ==
    [raised |-> TRUE, exc |-> exc, result |-> NoResult, regex_result |-> regex_result,
     path |-> path, requests |-> requests]

\* merge_ai with the result started afresh when the AI call fails
merge_ai_reset(result, missing_fields, ai) ==
    IF ai.success
    THEN [f \in DOMAIN result |->
             IF f = "ai_used" THEN TRUE
             ELSE IF f \in missing_fields /\ Truthy(ai.data[f]) THEN ai.data[f]
             ELSE result[f]]
    ELSE [NoResult EXCEPT !.error = ai.error]

\* merge_ai with the loop over every field instead of the missing ones
merge_ai_all_fields(result, missing_fields, ai) ==
    IF ai.success
    THEN [f \in DOMAIN result |->
             IF f = "ai_used" THEN TRUE
             ELSE IF f \in Fields /\ Truthy(ai.data[f]) THEN ai.data[f]
             ELSE result[f]]
    ELSE IF Truthy(ai.error) THEN [result EXCEPT !.error = ai.error]
    ELSE result

\* lines 424-430: the merge of the AI outcome into the regex values
merge_ai(result, missing_fields, ai) ==
    IF ai.success
    THEN [f \in DOMAIN result |->
             IF f = "ai_used" THEN TRUE
             ELSE IF f \in missing_fields /\ Truthy(ai.data[f]) THEN ai.data[f]
             ELSE result[f]]
    ELSE IF Truthy(ai.error) THEN [result EXCEPT !.error = ai.error]
    ELSE result

\* lines 401-410: the vision path, ai being what extract_with_ai_vision did
process_resume_vision(ai) ==
    IF ai.raised THEN Raised(ai.exc, NoFields, "vision", ai.requests)
    ELSE IF ai.success
         THEN Returned([name |-> ai.data.name, email |-> ai.data.email,
                        phone |-> ai.data.phone, ai_used |-> TRUE, error |-> None],
                       NoFields, "vision", ai.requests)
    ELSE Returned([NoResult EXCEPT !.error = ai.error], NoFields, "vision", ai.requests)

\* lines 423-430: the text call and the merge of what it returned
process_resume_ai(regex_result, result, missing_fields, ai) ==
    IF ai.raised THEN Raised(ai.exc, regex_result, "text", ai.requests)
    ELSE Returned(merge_ai(result, missing_fields, ai), regex_result, "text", ai.requests)

\* lines 420-432: result holds the regex values, missing_fields the fields
\* still empty, credits what check_ai_credits returned
process_resume_missing(text, regex_result, result, missing_fields, credits, env, resp) ==
    IF missing_fields = {} THEN Returned(result, regex_result, "text", <<>>)
    ELSE IF credits.has_credits
         THEN process_resume_ai(regex_result, result, missing_fields,
                                extract_with_ai_text(text, env, resp))
    ELSE IF Truthy(credits.error) /\ missing_fields = Fields
         THEN Returned([result EXCEPT !.error = credits.error], regex_result, "text", <<>>)
    ELSE Returned(result, regex_result, "text", <<>>)

\* lines 415-418: the regex values are copied into the result
process_resume_regex(text, regex_result, result, env, resp) ==
    process_resume_missing(text, regex_result, result,
                           {f \in Fields : ~Truthy(result[f])}, check_ai_credits(env), env, resp)

\* lines 412-434: the text path, regex_result being what extract_with_regex found
process_resume_text(text, regex_result, env, resp) ==
    process_resume_regex(text, regex_result,
                         [NoResult EXCEPT !.name = regex_result.name,
                                          !.email = regex_result.email,
                                          !.phone = regex_result.phone],
                         env, resp)

process_resume(text, is_image_based, images, env, resp) ==
    IF is_image_based /\ images # <<>>
    THEN process_resume_vision(extract_with_ai_vision(images, env, resp))
    ELSE process_resume_text(text, extract_with_regex(text), env, resp)

\* no call of process_resume
NoOutcome == Returned(NoResult, NoFields, "none", <<>>)

(***************************************************************************)
(* Document-to-text (pdf_processor.py, word_processor.py).  The bytes of   *)
(* an uploaded file are what the three readers make of them:               *)
(*   docx_opens, paragraphs, cells      python-docx (cells: the cells of   *)
(*                                      all tables, row by row)            *)
(*   plumber_opens, plumber_pages       pdfplumber                         *)
(*   reader_opens, reader_pages         PyPDF2                             *)
(* A page is what page.extract_text() does: a str, None, or an exception   *)
(* (t = "raise", s its text); detail is the text of the exception raised   *)
(* when a reader cannot open the bytes.                                    *)
(***************************************************************************)
EXC_TUPLE_STRIP == <<"'","t","u","p","l","e","'"," ","o","b","j","e","c","t"," ","h","a","s"," ","n","o"," ","a","t","t","r","i","b","u","t","e"," ","'","s","t","r","i","p","'">>
MSG_UNSUPPORTED == <<"U","n","s","u","p","p","o","r","t","e","d"," ","f","i","l","e"," ","f","o","r","m","a","t",":"," ">>
MSG_DOCX_FAILED == <<"F","a","i","l","e","d"," ","t","o"," ","e","x","t","r","a","c","t"," ","t","e","x","t"," ","f","r","o","m"," ","D","O","C","X",":"," ">>
MSG_PDF_FAILED == <<"F","a","i","l","e","d"," ","t","o"," ","e","x","t","r","a","c","t"," ","t","e","x","t"," ","f","r","o","m"," ","P","D","F",":"," ">>
MSG_NO_TEXT == <<"N","o"," ","t","e","x","t"," ","c","o","u","l","d"," ","b","e"," ","e","x","t","r","a","c","t","e","d">>
NOT_FOUND == <<"N","o","t"," ","f","o","u","n","d">>
ERROR_OPEN == <<" ","(","E","r","r","o","r",":"," ">>
CREDIT == <<"c","r","e","d","i","t">>
UNKNOWN == <<"u","n","k","n","o","w","n">>

\* min(len(pages), 2)
MAX_PAGES == 2
MIN_WORDS == 15
MIN_CHARS == 100

\* what extract_text gives: an exception (exc its text), a str, or the tuple
\* (text, is_image_based) of the PDF reader
TextRaised(exc) ==
    [raised |-> TRUE, exc |-> exc, is_tuple |-> FALSE, text |-> <<>>, is_image_based |-> FALSE]
TextStr(text) ==
    [raised |-> FALSE, exc |-> <<>>, is_tuple |-> FALSE, text |-> text, is_image_based |-> FALSE]
TextTuple(text, is_image_based) ==
    [raised |-> FALSE, exc |-> <<>>, is_tuple |-> TRUE, text |-> text,
     is_image_based |-> is_image_based]

is_minimal_text(text) ==
    IF text = <<>> THEN TRUE
    ELSE LET cleaned_text == strip(text)
         IN  Len(split_words(cleaned_text)) < MIN_WORDS \/ Len(cleaned_text) < MIN_CHARS

\* the page loop of either reader, from page i on, appending to text; an
\* exception keeps what was appended before it
RECURSIVE read_pages(_, _, _)
read_pages(pages, i, text) ==
    IF i > Len(pages) \/ i > MAX_PAGES THEN [raised |-> FALSE, exc |-> <<>>, text |-> text]
    ELSE IF pages[i].t = "raise" THEN [raised |-> TRUE, exc |-> pages[i].s, text |-> text]
    ELSE read_pages(pages, i + 1,
                    IF pages[i].t = "str" /\ pages[i].s # <<>>
                    THEN text \o pages[i].s \o <<"\n">> ELSE text)

extract_text_from_pdf(file_bytes) ==
    LET primary == IF file_bytes.plumber_opens
                   THEN read_pages(file_bytes.plumber_pages, 1, <<>>)
                   ELSE [raised |-> TRUE, exc |-> file_bytes.detail, text |-> <<>>]
        fallback == IF file_bytes.reader_opens
                    THEN read_pages(file_bytes.reader_pages, 1, primary.text)
                    ELSE [raised |-> TRUE, exc |-> file_bytes.detail, text |-> primary.text]
    IN  IF ~primary.raised /\ strip(primary.text) # <<>>
        THEN TextTuple(primary.text, is_minimal_text(primary.text))
        ELSE IF fallback.raised THEN TextRaised(MSG_PDF_FAILED \o fallback.exc)
        ELSE TextTuple(fallback.text, is_minimal_text(fallback.text))

\* the table loop: a cell is added unless it is blank or already listed
RECURSIVE add_cells(_, _, _)
add_cells(paragraphs, cells, i) ==
    IF i > Len(cells) THEN paragraphs
    ELSE LET text == strip(cells[i])
         IN  add_cells(IF text # <<>> /\ text \notin Range(paragraphs)
                       THEN Append(paragraphs, text) ELSE paragraphs,
                       cells, i + 1)

extract_text_from_docx(file_bytes) ==
    IF ~file_bytes.docx_opens THEN TextRaised(MSG_DOCX_FAILED \o file_bytes.detail)
    ELSE LET stripped == [i \in 1..Len(file_bytes.paragraphs) |-> strip(file_bytes.paragraphs[i])]
             paragraphs == SelectSeq(stripped, LAMBDA text : text # <<>>)
         IN  TextStr(join(<<"\n">>, add_cells(paragraphs, file_bytes.cells, 1)))

get_file_type(filename) ==
    LET lower_name == str_lower(filename)
    IN  IF endswith(lower_name, <<".","p","d","f">>) THEN "pdf"
        ELSE IF endswith(lower_name, <<".","d","o","c","x">>) THEN "docx"
        ELSE "unknown"

extract_text(file_bytes, file_type) ==
    IF file_type = "pdf" THEN extract_text_from_pdf(file_bytes)
    ELSE IF file_type = "docx" THEN extract_text_from_docx(file_bytes)
    ELSE TextRaised(MSG_UNSUPPORTED \o UNKNOWN)

(***************************************************************************)
(* The extraction log (extraction_logger.py): an entry keeps the file, the *)
(* stage and the success flag.                                             *)
(***************************************************************************)
log_extraction(filename, stage, success) ==
    [filename |-> filename, stage |-> stage, success |-> success]

log_file_complete(filename, result) ==
    log_extraction(filename, "file_complete",
                   Truthy(result.name) \/ Truthy(result.email) \/ Truthy(result.phone))

log_field_extraction(filename, field, value) ==
    log_extraction(filename, "extract_" \o field, value # None)

\* lines 106-118 of extraction_logger.py, without the rate
get_summary(log) ==
    LET complete_logs == SelectSeq(log, LAMBDA entry : entry.stage = "file_complete")
        total == Len(complete_logs)
        successful == Len(SelectSeq(complete_logs, LAMBDA entry : entry.success))
    IN  [total_files |-> total, successful |-> successful, failed |-> total - successful]

(***************************************************************************)
(* The per-file pipeline (app.py process_file).  The outcome is the        *)
(* returned result, the entry the call leaves at the end of                *)
(* batch_status_list, the log entries it appends, whether it called        *)
(* process_resume and the outcome of that call.  A confidence is kept in   *)
(* hundredths.                                                             *)
(***************************************************************************)
NoConfidence == [name |-> 0, email |-> 0, phone |-> 0]
NoMethods == [name |-> "none", email |-> "none", phone |-> "none"]

\* file_status with 'success' for every record without a credit error
file_status_no_partial(result) ==
    IF Truthy(result.error) /\ contains(str_lower(result.error.s), CREDIT) THEN "credit_error"
    ELSE "success"

file_status(result) ==
    IF Truthy(result.error) /\ contains(str_lower(result.error.s), CREDIT) THEN "credit_error"
    ELSE IF Truthy(result.name) \/ Truthy(result.email) \/ Truthy(result.phone) THEN "success"
    ELSE "partial"

\* lines 222-232
initial_result(filename) ==
    [filename |-> filename, name |-> None, email |-> None, phone |-> None,
     ai_used |-> FALSE, error |-> None, status |-> "processing",
     confidence |-> NoConfidence, methods |-> NoMethods]

\* lines 296-302: the except clause
process_file_except(filename, exc, log, called, extraction) ==
    [result |-> [initial_result(filename) EXCEPT !.error = Str(exc), !.status = "error"],
     entry |-> [filename |-> filename, status |-> "error", error |-> Str(exc),
                message |-> "Failed"],
     logs |-> log \o <<log_file_complete(filename, [initial_result(filename)
                                                    EXCEPT !.error = Str(exc),
                                                           !.status = "error"])>>,
     called |-> called,
     extraction |-> extraction]

\* lines 250-257: no text
process_file_no_text(filename, log) ==
    [result |-> [initial_result(filename) EXCEPT !.error = Str(MSG_NO_TEXT), !.status = "error"],
     entry |-> [filename |-> filename, status |-> "error",
                error |-> Str(MSG_NO_TEXT), message |-> "Failed to extract text"],
     logs |-> log \o <<log_extraction(filename, "text_extraction", FALSE)>>,
     called |-> FALSE,
     extraction |-> NoOutcome]

\* lines 290-294: result is the dictionary with its status set
process_file_complete(filename, log, extraction, result) ==
    [result |-> result,
     entry |-> [filename |-> filename, status |-> result.status,
                error |-> result.error, message |-> "Complete"],
     logs |-> log \o <<log_field_extraction(filename, "name", result.name),
                       log_field_extraction(filename, "email", result.email),
                       log_field_extraction(filename, "phone", result.phone),
                       log_file_complete(filename, result)>>,
     called |-> TRUE,
     extraction |-> extraction]

\* lines 283-288: copied is the dictionary after lines 265-269
process_file_status(filename, log, extraction, copied) ==
    process_file_complete(filename, log, extraction,
                          [copied EXCEPT !.status = file_status(copied)])

\* lines 263-294: extraction is what process_resume did
process_file_extracted(filename, log, extraction) ==
    IF extraction.raised THEN process_file_except(filename, extraction.exc, log, TRUE, extraction)
    ELSE process_file_status(filename, log, extraction,
                             [initial_result(filename)
                              EXCEPT !.name = extraction.result.name,
                                     !.email = extraction.result.email,
                                     !.phone = extraction.result.phone,
                                     !.ai_used = extraction.result.ai_used,
                                     !.error = extraction.result.error])

\* lines 241-294: text is what extract_text did
process_file_text(filename, text, api_key, env, resp) ==
    IF text.raised
    THEN process_file_except(filename, text.exc,
                             <<log_extraction(filename, "file_start", TRUE)>>, FALSE, NoOutcome)
    \* text.strip() of a tuple: AttributeError
    ELSE IF text.is_tuple
         THEN process_file_except(filename, EXC_TUPLE_STRIP,
                                  <<log_extraction(filename, "file_start", TRUE),
                                    log_extraction(filename, "text_extraction", TRUE)>>,
                                  FALSE, NoOutcome)
    ELSE IF strip(text.text) = <<>>
         THEN process_file_no_text(filename,
                                   <<log_extraction(filename, "file_start", TRUE),
                                     log_extraction(filename, "text_extraction", TRUE)>>)
    \* is_image_based receives api_key, images keeps its default None
    ELSE process_file_extracted(filename,
                                <<log_extraction(filename, "file_start", TRUE),
                                  log_extraction(filename, "text_extraction", TRUE)>>,
                                process_resume(text.text, Truthy(api_key), <<>>, env, resp))

process_file(uploaded_file, api_key, env, resp) ==
    process_file_text(uploaded_file.name,
                      extract_text(uploaded_file.bytes, get_file_type(uploaded_file.name)),
                      api_key, env, resp)

(***************************************************************************)
(* The spreadsheet export (excel_exporter.py): the data rows, in order.    *)
(***************************************************************************)
excel_row(item) ==
    [name |-> IF Truthy(item.name) THEN item.name.s ELSE NOT_FOUND,
     email |-> IF Truthy(item.email) THEN item.email.s ELSE NOT_FOUND,
     phone |-> IF Truthy(item.phone) THEN item.phone.s ELSE NOT_FOUND,
     filename |-> IF Truthy(item.error)
                  THEN item.filename \o ERROR_OPEN \o item.error.s \o <<")">>
                  ELSE item.filename,
     error_fill |-> Truthy(item.error)]

\* export_to_excel without the rows of the failed files
export_to_excel_skip_errors(data) ==
    LET kept == SelectSeq(data, LAMBDA item : ~Truthy(item.error))
    IN  [i \in 1..Len(kept) |-> excel_row(kept[i])]

export_to_excel(data) == [i \in 1..Len(data) |-> excel_row(data[i])]

(***************************************************************************)
(* Inputs: the documents, the credential and the behaviours of the         *)
(* completion service.                                                     *)
(***************************************************************************)

Texts ==
    { \* every field
     <<"J","o","h","n"," ","S","m","i","t","h","\n","j","o","h","n",".","s","m","i","t","h","@","e","m","a","i","l",".","c","o","m","\n","0","4","1","2"," ","3","4","5"," ","6","7","8">>,
     \* a name and a phone
     <<"J","a","n","e"," ","D","o","e","\n","M","o","b","i","l","e",":"," ","0","4","1","2"," ","3","4","5"," ","6","7","8">>,
     \* an email that gives no name
     <<"j","s","m","i","t","h","@","e","m","a","i","l",".","c","o","m","\n","s","k","i","l","l","s",":"," ","n","o","n","e">>,
     \* an email that gives a name
     <<"j","o","h","n",".","s","m","i","t","h","@","e","m","a","i","l",".","c","o","m">>,
     \* a name
     <<"J","a","n","e"," ","D","o","e">>,
     \* a phone
     <<"t","e","l"," ","0","2"," ","9","8","7","6"," ","5","4","3","2">>,
     \* no field
     <<"c","u","r","r","i","c","u","l","u","m"," ","v","i","t","a","e">>,
     \* whitespace
     <<" ","\n"," ">>,
     \* nothing
     <<>>,
     \* an email with six segments in its local part
     <<"a","a",".","b","b",".","c","c",".","d","d",".","e","e",".","f","f","@","m","a","i","l",".","c","o","m">>}

\* the values a completion can carry, all different from what the regex stage finds
AI_NAME == <<"A","l","e","x"," ","A","i">>
AI_EMAIL == <<"a","l","e","x","@","a","i",".","i","o">>
AI_PHONE == <<"0","4","0","0"," ","1","1","1"," ","2","2","2">>

\* CLAUDE_SONNET_API_KEY: unset, set to '', or set to a key
EnvKeys == {None, Str(<<>>), Str(<<"s","k","-","o","r","-","1">>)}

\* a JSON object of a completion: each key null (or absent), '' or a value
AiObjects ==
    [name : {None, Str(<<>>), Str(AI_NAME)},
     email : {None, Str(<<>>), Str(AI_EMAIL)},
     phone : {None, Str(<<>>), Str(AI_PHONE)}]
AI_FULL == [name |-> Str(AI_NAME), email |-> Str(AI_EMAIL), phone |-> Str(AI_PHONE)]

Contents ==
    {<<ObjectTok(d)>> : d \in AiObjects}
    \cup {<<FENCE, JSON_WORD, ObjectTok(AI_FULL), FENCE>>,
          <<FENCE, ObjectTok(AI_FULL), FENCE>>,
          <<TEXT_TOK, FENCE, JSON_WORD, ObjectTok(AI_FULL), FENCE, TEXT_TOK>>,
          <<ObjectTok(AI_FULL), FENCE>>,
          <<TEXT_TOK, ObjectTok(AI_FULL)>>,
          <<TEXT_TOK>>,
          <<>>,
          <<ARRAY_TOK>>,
          <<FENCE, JSON_WORD, ARRAY_TOK, FENCE>>}

NoBody == [shape |-> "content", content |-> <<>>]
Bodies ==
    {[shape |-> "content", content |-> c] : c \in Contents}
    \cup {[shape |-> sh, content |-> <<>>] :
             sh \in {"no_choices", "empty_choices", "null_message", "null_content"}}

Http(status, body) == [kind |-> "http", status |-> status, body |-> body, detail |-> <<>>]
TIMEOUT == [kind |-> "timeout", status |-> 0, body |-> NoBody, detail |-> <<>>]
ConnectionError(detail) == [kind |-> "connection", status |-> 0, body |-> NoBody, detail |-> detail]

Responses ==
    {TIMEOUT, ConnectionError(<<"C","o","n","n","e","c","t","i","o","n"," ","r","e","f","u","s","e","d">>)}
    \cup {Http(st, NoBody) : st \in {402, 429, 500, 201}}
    \cup {Http(200, b) : b \in Bodies}

\* the uploaded files: the uploader admits .pdf and .docx names only
NoBytes ==
    [docx_opens |-> FALSE, paragraphs |-> <<>>, cells |-> <<>>,
     plumber_opens |-> FALSE, plumber_pages |-> <<>>,
     reader_opens |-> FALSE, reader_pages |-> <<>>, detail |-> <<"F","i","l","e"," ","i","s"," ","n","o","t"," ","a"," ","z","i","p"," ","f","i","l","e">>]
Docx(paragraphs, cells) ==
    [NoBytes EXCEPT !.docx_opens = TRUE, !.paragraphs = paragraphs, !.cells = cells]
PAR_NAME == <<"A","l"," ","L","i">>
PDF_PAGE == <<"A","l"," ","L","i","\n","a","l","@","l","i",".","i","o">>

\* every field is found by the regex stage
FILE_FULL ==
    [name |-> <<"a",".","d","o","c","x">>,
     bytes |-> Docx(<<PAR_NAME, <<" ">>, <<"a","l","@","l","i",".","i","o">>>>, <<<<"0","4","1","2","3","4","5","6","7","8">>, PAR_NAME>>)]
\* not a document
FILE_CORRUPT == [name |-> <<"d",".","D","O","C","X">>, bytes |-> NoBytes]

\* the files of the uploader: FILE_FULL; text, but no field in it; no text;
\* FILE_CORRUPT; a PDF with one page of text; a name and nothing else
Files ==
    {FILE_FULL,
     [name |-> <<"b",".","d","o","c","x">>, bytes |-> Docx(<<<<"c","v">>>>, <<>>)],
     [name |-> <<"c",".","d","o","c","x">>, bytes |-> Docx(<<<<" ">>>>, <<>>)],
     FILE_CORRUPT,
     [name |-> <<"r",".","p","d","f">>,
      bytes |-> [NoBytes EXCEPT !.plumber_opens = TRUE,
                                !.plumber_pages = <<[t |-> "str", s |-> PDF_PAGE]>>,
                                !.reader_opens = TRUE,
                                !.reader_pages = <<[t |-> "str", s |-> PDF_PAGE]>>]],
     [name |-> <<"e",".","d","o","c","x">>, bytes |-> Docx(<<PAR_NAME>>, <<>>)]}

\* the files process_file can be called with: those, and a file of a type the
\* uploader does not admit
UnitFiles == Files \cup {[name |-> <<"f",".","t","x","t">>, bytes |-> NoBytes]}

\* the most files in one upload, and the most records the session holds
MaxFiles == 2
MaxResults == 2
Uploads == UNION {[1..n -> Files] : n \in 1..MaxFiles}

\* the longest list of page images a caller passes
MaxImages == 1
ImageLists == UNION {[1..n -> {"page"}] : n \in 0..MaxImages}

\* the lines that hold the subject's phone
PhoneLines ==
    {<<"M","o","b","i","l","e",":"," ","0","4","1","2"," ","3","4","5"," ","6","7","8">>,
     <<"T","e","l",":"," ","0","2"," ","9","8","7","6"," ","5","4","3","2">>,
     <<"+","6","1"," ","2"," ","9","8","7","6"," ","5","4","3","2">>}
\* the texts extract_with_regex is called with: a first line (a name or a
\* section header), then optionally an email line, a line with the subject's
\* phone and a reference block with another phone
RegexTexts ==
    LET
    FirstLines ==
        {<<"J","a","n","e"," ","R","o","e">>,
         <<"D","r","."," ","J","a","n","e"," ","R","o","e">>,
         <<"W","o","r","k"," ","E","x","p","e","r","i","e","n","c","e">>,
         <<"P","r","o","f","e","s","s","i","o","n","a","l"," ","S","u","m","m","a","r","y">>,
         <<"E","x","p","e","r","i","e","n","c","e">>,
         <<"S","K","I","L","L","S">>,
         <<"s","k","i","l","l","s",":"," ","n","o","n","e">>}
    EmailLines ==
        {<<"j","o","h","n",".","s","m","i","t","h","@","e","m","a","i","l",".","c","o","m">>,
         <<"j","o","h","n","2","s","m","i","t","h","@","e","m","a","i","l",".","c","o","m">>,
         <<"a","a",".","b","b",".","c","c",".","d","d",".","e","e",".","f","f","@","m","a","i","l",".","c","o","m">>,
         <<"j","_","s","m","i","t","h","-","l","e","e","9","@","x",".","o","r","g">>,
         <<"i","n","f","o","@","e","x","a","m","p","l","e",".","c","o","m"," ","a","l","@","l","i",".","i","o">>,
         <<"h","r","@","T","e","s","t",".","c","o","m",","," ","a","l","@","l","i",".","i","o">>}
    ReferenceLines ==
        {<<"R","e","f","e","r","e","n","c","e","s",":"," ","J","a","n","e"," ","D","o","e",","," ","0","2"," ","9","9","9","9"," ","8","8","8","8">>,
         <<"R","e","f","e","r","e","n","c","e","s",":"," ","J","o","h","n"," ","D","o","e",","," ","0","4","9","9"," ","8","8","8"," ","7","7","7">>,
         <<"R","e","f","e","r","e","e",":"," ","A","n","n"," ","L","e","e"," ","(","s","u","p","e","r","v","i","s","o","r",")"," ","+","6","1"," ","4","9","9"," ","8","8","8"," ","7","7","7">>}
    IN
    {join(<<"\n">>, SelectSeq(<<first, email, phone, reference>>, LAMBDA line : line # <<>>)) :
        first \in FirstLines, email \in EmailLines \cup {<<>>},
        phone \in PhoneLines \cup {<<>>}, reference \in ReferenceLines \cup {<<>>}}

\* the PDF documents extract_text_from_pdf is called with: up to three pages;
\* a page gives its text, gives None, or makes the reader raise, for
\* pdfplumber and for PyPDF2 independently; either reader may fail to open
\* the document
PdfBytes ==
    LET page_texts == <<PAR_NAME, <<"a","l","@","l","i",".","i","o">>, <<"p","3">>>>
        page(i) == {[t |-> "str", s |-> page_texts[i]],
                    [t |-> "none", s |-> <<>>],
                    [t |-> "raise", s |-> <<"b","a","d"," ","p","a","g","e">>]}
        pages == UNION {{p \in [1..n -> UNION {page(i) : i \in 1..3}] :
                            \A i \in 1..n : p[i] \in page(i)} : n \in 0..3}
    IN  {[NoBytes EXCEPT !.plumber_opens = po, !.plumber_pages = IF po THEN pp ELSE <<>>,
                         !.reader_opens = ro, !.reader_pages = IF ro THEN rp ELSE <<>>] :
            po \in BOOLEAN, ro \in BOOLEAN, pp \in pages, rp \in pages}

(***************************************************************************)
(* State.                                                                  *)
(***************************************************************************)
VARIABLES
    env_key,            \* os.environ's CLAUDE_SONNET_API_KEY
    pc,                 \* where the program is
    call,               \* the arguments of the last process_resume call
    service,            \* what the completion service did during that call
    outcome,            \* the outcome of that call
    uploaded_files,     \* the files in the uploader
    idx,                \* the batch loop's index
    batch_status_list,  \* the batch loop's status list
    results,            \* st.session_state.results
    batch_status,       \* st.session_state.batch_status
    logs,               \* extraction_logger.logs
    excel,              \* the data rows of the last export
    extracted,          \* the locals and the return value of the last extract_with_regex call
    regex_runs,         \* the extract_with_regex calls so far: text, return value, the log before and after
    pdf_text            \* what the last extract_text_from_pdf call returned or raised

vars == <<env_key, pc, call, service, outcome, uploaded_files, idx, batch_status_list,
          results, batch_status, logs, excel, extracted, regex_runs, pdf_text>>
app_vars == <<uploaded_files, idx, batch_status_list, results, batch_status, logs, excel>>
resume_vars == <<call, service, outcome>>

\* no call of extract_with_regex
NoExtracted == [name |-> None, email |-> None, phone |-> None, result |-> NoFields]
NoCall == [text |-> <<>>, is_image_based |-> FALSE, images |-> <<>>]

(***************************************************************************)
(* process_resume called on its own: any document, either path, any        *)
(* credential, any behaviour of the completion service.  process_resume    *)
(* keeps no state between calls, so one call per behaviour covers it.      *)
(***************************************************************************)
InitResume ==
    /\ env_key \in EnvKeys
    /\ pc = "ready"
    /\ call \in [text : Texts, is_image_based : BOOLEAN, images : ImageLists]
    /\ service = TIMEOUT
    /\ outcome = NoOutcome
    /\ uploaded_files = <<>>
    /\ idx = 0
    /\ batch_status_list = <<>>
    /\ results = <<>>
    /\ batch_status = <<>>
    /\ logs = <<>>
    /\ excel = <<>>
    /\ extracted = NoExtracted
    /\ regex_runs = <<>>
    /\ pdf_text = TextStr(<<>>)

CallProcessResume ==
    \E resp \in Responses :
        /\ pc = "ready"
        /\ service' = resp
        /\ outcome' = process_resume(call.text, call.is_image_based, call.images, env_key, resp)
        /\ pc' = IF outcome'.raised THEN "raised" ELSE "returned"
        /\ UNCHANGED <<env_key, extracted, regex_runs, pdf_text, call, app_vars>>

SpecResume == InitResume /\ [][CallProcessResume]_vars

(***************************************************************************)
(* The application (app.py main).  A script run starts with the credential *)
(* check; a click on "Extract Data" runs the batch loop over the files of  *)
(* the uploader, one process_file call per iteration, and ends with a      *)
(* rerun that renders the export; "Clear All" empties the session.         *)
(***************************************************************************)
Init ==
    /\ env_key \in EnvKeys
    /\ pc = "start"
    /\ call = NoCall
    /\ service = TIMEOUT
    /\ outcome = NoOutcome
    /\ uploaded_files = <<>>
    /\ idx = 0
    /\ batch_status_list = <<>>
    /\ results = <<>>
    /\ batch_status = <<>>
    /\ logs = <<>>
    /\ excel = <<>>
    /\ extracted = NoExtracted
    /\ regex_runs = <<>>
    /\ pdf_text = TextStr(<<>>)

\* os.environ.get('CLAUDE_SONNET_API_KEY', '')
main_api_key(env) == IF env = None THEN Str(<<>>) ELSE env

\* lines 505-510: check_ai_credits takes no argument, so the call
\* check_ai_credits(api_key) raises TypeError and the run ends there
main_start ==
    /\ pc = "start"
    /\ pc' = IF Truthy(main_api_key(env_key)) THEN "crashed" ELSE "idle"
    /\ UNCHANGED <<env_key, extracted, regex_runs, pdf_text, resume_vars, app_vars>>

\* lines 619-630: the export is rendered when there are results
render(data) == IF data # <<>> THEN export_to_excel(data) ELSE <<>>

\* lines 549-554: the click, with the files the uploader holds
ExtractData ==
    \E files \in Uploads :
        /\ pc = "idle"
        /\ Len(results) + Len(files) <= MaxResults
        /\ uploaded_files' = files
        /\ batch_status_list' = <<>>
        /\ idx' = 0
        /\ pc' = "batch"
        /\ UNCHANGED <<env_key, extracted, regex_runs, pdf_text, resume_vars, results, batch_status, logs, excel>>

\* lines 556-565: one iteration of the loop.  The service is only consulted
\* when a credential is configured.
ProcessNextFile ==
    \E resp \in IF Truthy(env_key) THEN Responses ELSE {TIMEOUT} :
        LET file == uploaded_files[idx + 1]
            done == process_file(file, main_api_key(env_key), env_key, resp)
        IN  /\ pc = "batch"
            /\ idx < Len(uploaded_files)
            /\ batch_status_list' = Append(batch_status_list, done.entry)
            /\ results' = Append(results, done.result)
            /\ logs' = logs \o done.logs
            /\ idx' = idx + 1
            /\ IF done.called
               THEN /\ call' = [text |-> extract_text(file.bytes, get_file_type(file.name)).text,
                                is_image_based |-> Truthy(main_api_key(env_key)),
                                images |-> <<>>]
                    /\ service' = resp
                    /\ outcome' = done.extraction
               ELSE UNCHANGED resume_vars
            /\ UNCHANGED <<env_key, extracted, regex_runs, pdf_text, pc, uploaded_files, batch_status, excel>>

\* the end of the loop with batch_status set to the list of this batch
FinishBatchReplacing ==
    /\ pc = "batch"
    /\ idx = Len(uploaded_files)
    /\ batch_status' = batch_status_list
    /\ uploaded_files' = <<>>
    /\ batch_status_list' = <<>>
    /\ idx' = 0
    /\ excel' = render(results)
    /\ pc' = "idle"
    /\ UNCHANGED <<env_key, extracted, regex_runs, pdf_text, resume_vars, results, logs>>

\* lines 579-596, then the rerun
FinishBatch ==
    /\ pc = "batch"
    /\ idx = Len(uploaded_files)
    /\ batch_status' = batch_status \o batch_status_list
    /\ uploaded_files' = <<>>
    /\ batch_status_list' = <<>>
    /\ idx' = 0
    /\ excel' = render(results)
    /\ pc' = "idle"
    /\ UNCHANGED <<env_key, extracted, regex_runs, pdf_text, resume_vars, results, logs>>

\* lines 540-547
ClearAll ==
    /\ pc = "idle"
    /\ results' = <<>>
    /\ batch_status' = <<>>
    /\ logs' = <<>>
    /\ excel' = render(results')
    /\ UNCHANGED <<env_key, extracted, regex_runs, pdf_text, pc, resume_vars, uploaded_files, idx, batch_status_list>>

Next ==
    \/ main_start
    \/ ExtractData
    \/ ProcessNextFile
    \/ FinishBatch
    \/ ClearAll

Spec == Init /\ [][Next]_vars

(***************************************************************************)
(* process_file called on its own: any file, any credential, any behaviour *)
(* of the completion service.  The file is the one in uploaded_files, the  *)
(* returned record is kept in results, the entry the call appends to its   *)
(* batch_status_list argument in batch_status_list.                        *)
(***************************************************************************)
InitFile ==
    /\ env_key \in EnvKeys
    /\ pc = "file_ready"
    /\ call = NoCall
    /\ service = TIMEOUT
    /\ outcome = NoOutcome
    /\ uploaded_files \in {<<file>> : file \in UnitFiles}
    /\ idx = 0
    /\ batch_status_list = <<>>
    /\ results = <<>>
    /\ batch_status = <<>>
    /\ logs = <<>>
    /\ excel = <<>>
    /\ extracted = NoExtracted
    /\ regex_runs = <<>>
    /\ pdf_text = TextStr(<<>>)

CallProcessFile ==
    \E resp \in Responses :
        LET file == uploaded_files[1]
            done == process_file(file, main_api_key(env_key), env_key, resp)
        IN  /\ pc = "file_ready"
            /\ batch_status_list' = <<done.entry>>
            /\ results' = <<done.result>>
            /\ logs' = done.logs
            /\ IF done.called
               THEN /\ call' = [text |-> extract_text(file.bytes, get_file_type(file.name)).text,
                                is_image_based |-> Truthy(main_api_key(env_key)),
                                images |-> <<>>]
                    /\ service' = resp
                    /\ outcome' = done.extraction
               ELSE UNCHANGED resume_vars
            /\ pc' = "file_done"
            /\ UNCHANGED <<env_key, extracted, regex_runs, pdf_text, uploaded_files, idx, batch_status, excel>>

SpecFile == InitFile /\ [][CallProcessFile]_vars

(***************************************************************************)
(* extract_with_regex called on its own.  extracted keeps the locals name, *)
(* email and phone of lines 160-162 and the returned dictionary.           *)
(***************************************************************************)
InitRegex ==
    /\ env_key = None
    /\ pc = "regex_ready"
    /\ call \in [text : RegexTexts, is_image_based : {FALSE}, images : {<<>>}]
    /\ service = TIMEOUT
    /\ outcome = NoOutcome
    /\ uploaded_files = <<>>
    /\ idx = 0
    /\ batch_status_list = <<>>
    /\ results = <<>>
    /\ batch_status = <<>>
    /\ logs = <<>>
    /\ excel = <<>>
    /\ extracted = NoExtracted
    /\ regex_runs = <<>>
    /\ pdf_text = TextStr(<<>>)

\* extract_with_regex with a memory: a name of an earlier call when the text
\* has none
CallExtractWithRegexRemembering ==
    LET names == {i \in 1..Len(regex_runs) : Truthy(regex_runs[i].result.name)}
        result == extract_with_regex(call.text)
    IN  /\ pc = "regex_ready"
        /\ extracted' = [name |-> extract_name(call.text),
                         email |-> extract_email(call.text),
                         phone |-> extract_phone(call.text),
                         result |-> IF ~Truthy(result.name) /\ names # {}
                                    THEN [result EXCEPT !.name = regex_runs[SetMax(names)].result.name]
                                    ELSE result]
        /\ pc' = "regex_done"
        /\ UNCHANGED <<env_key, pdf_text, resume_vars, app_vars>>
        /\ regex_runs' = Append(regex_runs, [text |-> call.text, result |-> extracted'.result,
                                             logs_before |-> logs, logs_after |-> logs'])

\* regex_runs notes the call: its text, its return value, and the log before
\* and after it
CallExtractWithRegex ==
    /\ pc = "regex_ready"
    /\ extracted' = [name |-> extract_name(call.text),
                     email |-> extract_email(call.text),
                     phone |-> extract_phone(call.text),
                     result |-> extract_with_regex(call.text)]
    /\ pc' = "regex_done"
    /\ UNCHANGED <<env_key, pdf_text, resume_vars, app_vars>>
    /\ regex_runs' = Append(regex_runs, [text |-> call.text, result |-> extracted'.result,
                                         logs_before |-> logs, logs_after |-> logs'])

SpecRegex == InitRegex /\ [][CallExtractWithRegex]_vars

(***************************************************************************)
(* extract_with_regex called again and again, a document processed by      *)
(* process_file between two calls (without a credential), which appends to *)
(* the log and to the results.                                             *)
(***************************************************************************)
\* the most calls of extract_with_regex in a row
MaxRuns == 3

InitRuns ==
    /\ env_key = None
    /\ pc = "regex_ready"
    /\ call \in [text : Texts, is_image_based : {FALSE}, images : {<<>>}]
    /\ service = TIMEOUT
    /\ outcome = NoOutcome
    /\ uploaded_files = <<>>
    /\ idx = 0
    /\ batch_status_list = <<>>
    /\ results = <<>>
    /\ batch_status = <<>>
    /\ logs = <<>>
    /\ excel = <<>>
    /\ extracted = NoExtracted
    /\ regex_runs = <<>>
    /\ pdf_text = TextStr(<<>>)

\* a document is processed (one with text, or one that cannot be read), then
\* the next text is at hand: the first text again, or the document's
OtherDocument ==
    /\ pc = "regex_done"
    /\ Len(regex_runs) < MaxRuns
    /\ \E file \in {FILE_FULL, FILE_CORRUPT} :
           LET done == process_file(file, None, env_key, TIMEOUT)
               text == extract_text(file.bytes, get_file_type(file.name))
           IN  \E next \in {regex_runs[1].text} \cup (IF text.raised THEN {} ELSE {text.text}) :
                   /\ results' = Append(results, done.result)
                   /\ logs' = logs \o done.logs
                   /\ call' = [call EXCEPT !.text = next]
                   /\ pc' = "regex_ready"
                   /\ UNCHANGED <<env_key, extracted, regex_runs, pdf_text, service, outcome, uploaded_files,
                                  idx, batch_status_list, batch_status, excel>>

SpecRuns == InitRuns /\ [][CallExtractWithRegex \/ OtherDocument]_vars

(***************************************************************************)
(* extract_text_from_pdf called on its own.  The document is the one in    *)
(* uploaded_files.                                                         *)
(***************************************************************************)
InitPdf ==
    /\ env_key = None
    /\ pc = "pdf_ready"
    /\ call = NoCall
    /\ service = TIMEOUT
    /\ outcome = NoOutcome
    /\ uploaded_files \in {<<[name |-> <<"r",".","p","d","f">>, bytes |-> bytes]>> : bytes \in PdfBytes}
    /\ idx = 0
    /\ batch_status_list = <<>>
    /\ results = <<>>
    /\ batch_status = <<>>
    /\ logs = <<>>
    /\ excel = <<>>
    /\ extracted = NoExtracted
    /\ regex_runs = <<>>
    /\ pdf_text = TextStr(<<>>)

CallExtractTextFromPdf ==
    /\ pc = "pdf_ready"
    /\ pdf_text' = extract_text_from_pdf(uploaded_files[1].bytes)
    /\ pc' = "pdf_done"
    /\ UNCHANGED <<env_key, extracted, regex_runs, resume_vars, app_vars>>

SpecPdf == InitPdf /\ [][CallExtractTextFromPdf]_vars

(***************************************************************************)
(* Properties of process_resume (checked under SpecResume) and of the      *)
(* batch loop (checked under Spec).                                        *)
(***************************************************************************)
\* the text path: is_image_based false, or no images supplied
TextPath == ~call.is_image_based \/ call.images = <<>>

\* what the regex stage produces for each text, and for the text of the call
RegexStageOf == [t \in Texts |-> extract_with_regex(t)]
RegexStage ==
    IF call.text \in Texts THEN RegexStageOf[call.text] ELSE extract_with_regex(call.text)

\* the name, email and phone of the returned result are the regex values
RegexOnly == \A f \in Fields : outcome.result[f] = RegexStage[f]

\* some field is missing after the regex stage
SomeMissing == \E f \in Fields : ~Truthy(RegexStage[f])

\* the content holds no JSON value
NotJson(content) == \A i \in 1..Len(content) : content[i].k \notin {"object", "array"}

\* the JSON objects of the content
ObjectsIn(content) == {content[i].data : i \in {j \in 1..Len(content) : content[j].k = "object"}}

\* the service answered 200 with content that is not JSON
Unparsable ==
    /\ service.kind = "http"
    /\ service.status = 200
    /\ service.body.shape \in {"content", "no_choices"}
    /\ NotJson(service.body.content)

\* the AI call fails: 402, 429, another non-200 status, a timeout, a
\* connection failure, unparsable content
AiCallFails ==
    \/ service.kind \in {"timeout", "connection"}
    \/ service.kind = "http" /\ service.status # 200
    \/ Unparsable

\* C1: on the text path, when the AI text call was made and failed (402, 429,
\* another non-200 status, timeout, connection failure, unparsable content),
\* the returned name, email and phone are the regex-stage values of the same
\* text and ai_used is False.
C1_FailureKeepsRegexValues ==
    (pc = "returned" /\ TextPath /\ outcome.requests # <<>> /\ AiCallFails)
        => RegexOnly /\ ~outcome.result.ai_used

\* a 402 answer to a call for a text with a name and no email
C1_Witness ==
    /\ pc = "returned" /\ TextPath
    /\ outcome.requests # <<>>
    /\ service.kind = "http" /\ service.status = 402
    /\ Truthy(RegexStage.name) /\ ~Truthy(RegexStage.email)
    /\ outcome.result.name = RegexStage.name

\* C2: on the text path every field the regex stage found keeps the regex
\* value whatever the AI call returns; a field the regex stage missed is None
\* unless a request was sent and the completion's object carries a non-empty
\* value for it, which is then the final value.
C2_RegexFieldsKept ==
    (pc = "returned" /\ TextPath)
        => \A f \in Fields :
               IF Truthy(RegexStage[f])
               THEN outcome.result[f] = RegexStage[f]
               ELSE \/ outcome.result[f] = None
                    \/ /\ outcome.requests # <<>>
                       /\ service.kind = "http" /\ service.status = 200
                       /\ \E d \in ObjectsIn(service.body.content) :
                              Truthy(d[f]) /\ outcome.result[f] = d[f]

\* the completion carries a different name and an email: the regex name stays,
\* the missing email is filled
C2_Witness ==
    /\ pc = "returned" /\ TextPath
    /\ service.kind = "http" /\ service.status = 200
    /\ service.body.content = <<ObjectTok(AI_FULL)>>
    /\ Truthy(RegexStage.name) /\ ~Truthy(RegexStage.email)
    /\ outcome.result.name = RegexStage.name
    /\ outcome.result.name # Str(AI_NAME)
    /\ outcome.result.email = Str(AI_EMAIL)

\* C3: process_resume never raises, whatever the text and whatever the
\* completion service does.
C3_NeverRaises == pc # "raised"

\* a field of the returned result was supplied by the AI response
SuppliedByAi(f) ==
    /\ Truthy(outcome.result[f])
    /\ outcome.requests # <<>>
    /\ TextPath => ~Truthy(RegexStage[f])

\* C5: in every returned result ai_used is True exactly when at least one of
\* name, email, phone was supplied by the AI response.
C5_AiUsedIffSupplied ==
    pc = "returned" => (outcome.result.ai_used <=> \E f \in Fields : SuppliedByAi(f))

\* C6: on the text path a request is sent exactly when a credential is
\* configured and a field is missing after the regex stage; at most one request
\* is sent, also after a failure; when the regex stage finds all three fields
\* no request is sent, ai_used is False and error is None.
C6_OneRequestWhenMissing ==
    (pc \in {"returned", "raised"} /\ TextPath)
        => /\ Len(outcome.requests) <= 1
           /\ outcome.requests # <<>> <=> (Truthy(env_key) /\ SomeMissing)
           /\ ~SomeMissing => /\ pc = "returned"
                              /\ outcome.requests = <<>>
                              /\ ~outcome.result.ai_used
                              /\ outcome.result.error = None

\* the one request of a call timed out
C6_Witness ==
    /\ pc = "returned" /\ TextPath
    /\ Truthy(env_key) /\ SomeMissing
    /\ service.kind = "timeout"
    /\ Len(outcome.requests) = 1
    /\ outcome.requests[1].text = call.text

\* C7: without a credential no request is sent on either path, the call
\* returns, and on the text path name, email and phone are the regex-stage
\* values with ai_used False.
C7_NoCredentialNoRequest ==
    (pc # "ready" /\ ~Truthy(env_key))
        => /\ pc = "returned"
           /\ outcome.requests = <<>>
           /\ TextPath => RegexOnly /\ ~outcome.result.ai_used

\* the credential is set to '' and the call takes the vision path
C7_Witness ==
    /\ pc = "returned"
    /\ env_key = Str(<<>>)
    /\ ~TextPath
    /\ outcome.requests = <<>>
    /\ outcome.result.error = Str(MSG_NO_KEY)

\* C8 as stated: without a credential, a document with a field missing after
\* the regex stage comes back with the regex values and the note
\* 'No API key configured' in error, also when some fields were found.
C8_NoteWheneverMissing ==
    (pc = "returned" /\ TextPath /\ ~Truthy(env_key) /\ SomeMissing)
        => RegexOnly /\ outcome.result.error = Str(MSG_NO_KEY)

\* C8 amended: without a credential, a document with a field missing after the
\* regex stage comes back with the regex values; error holds the note
\* 'No API key configured' when none of the three fields was found, and is
\* None when some field was found.
C8_NoteWhenNothingFound ==
    (pc = "returned" /\ TextPath /\ ~Truthy(env_key) /\ SomeMissing)
        => /\ RegexOnly
           /\ outcome.result.error =
                  IF \A f \in Fields : ~Truthy(RegexStage[f]) THEN Str(MSG_NO_KEY) ELSE None

\* no credential, nothing found: the note is in error
C8_Witness ==
    /\ pc = "returned" /\ TextPath
    /\ env_key = None
    /\ \A f \in Fields : outcome.result[f] = None
    /\ outcome.result.error = Str(MSG_NO_KEY)
    /\ ~outcome.result.ai_used

\* the kind of a failure of the service
FailureKind ==
    IF service.kind = "timeout" THEN "timeout"
    ELSE IF service.kind = "connection" THEN "connection"
    ELSE IF service.status = 402 THEN "credits"
    ELSE IF service.status = 429 THEN "rate_limit"
    ELSE "api_error"

\* the kinds of failure an error message can stand for
KindsOf(message) ==
    {k \in {"credits", "rate_limit", "api_error", "timeout", "connection"} :
        \/ k = "credits" /\ message = MSG_CREDITS
        \/ k = "rate_limit" /\ message = MSG_RATE_LIMIT
        \/ k = "api_error" /\ startswith(message, MSG_API_ERROR)
        \/ k = "timeout" /\ message = MSG_TIMEOUT
        \/ k = "connection" /\ startswith(message, MSG_REQUEST_FAILED)}

\* C9: when the AI text call fails with 402, 429, another non-200 status, a
\* timeout or a connection failure, result.error is a message that stands for
\* that kind of failure and for no other (the 402 message contains 'credit'),
\* the regex-found fields are unchanged and ai_used is False.
C9_DistinctErrorKinds ==
    (pc = "returned" /\ TextPath /\ outcome.requests # <<>> /\ AiCallFails /\ ~Unparsable)
        => /\ Truthy(outcome.result.error)
           /\ KindsOf(outcome.result.error.s) = {FailureKind}
           /\ FailureKind = "credits" => contains(str_lower(outcome.result.error.s), CREDIT)
           /\ FailureKind = "api_error" =>
                  outcome.result.error.s = MSG_API_ERROR \o int_str(service.status)
           /\ FailureKind = "connection" =>
                  outcome.result.error.s = MSG_REQUEST_FAILED \o service.detail
           /\ RegexOnly
           /\ ~outcome.result.ai_used

\* a timeout of a call for a text with a name: the timeout message, the name
\* kept
C9_Witness ==
    /\ pc = "returned" /\ TextPath
    /\ outcome.requests # <<>>
    /\ service.kind = "timeout"
    /\ outcome.result.error = Str(MSG_TIMEOUT)
    /\ Truthy(RegexStage.name)
    /\ outcome.result.name = RegexStage.name

\* C10: a 200 answer whose content is not JSON is a miss, not an error: the
\* fields keep their regex-stage values and result.error stays None.
C10_UnparsableIsNoError ==
    (pc = "returned" /\ TextPath /\ outcome.requests # <<>> /\ Unparsable)
        => RegexOnly /\ outcome.result.error = None

\* C4: the batch loop appends one record per file, in upload order, whatever
\* happened inside a file, and the export holds one data row per record, in
\* the same order.
C4_OneRecordPerFileInOrder ==
    /\ pc = "batch" =>
           /\ Len(batch_status_list) = idx
           /\ Len(results) = Len(batch_status) + idx
           /\ \A i \in 1..idx :
                  /\ results[Len(batch_status) + i].filename = uploaded_files[i].name
                  /\ batch_status_list[i].filename = uploaded_files[i].name
    /\ pc = "idle" =>
           /\ Len(results) = Len(batch_status)
           /\ Len(excel) = Len(results)
           /\ \A i \in 1..Len(results) :
                  /\ batch_status[i].filename = results[i].filename
                  /\ startswith(excel[i].filename, results[i].filename)
                  /\ excel[i].error_fill = Truthy(results[i].error)
                  /\ excel[i].name = IF Truthy(results[i].name) THEN results[i].name.s
                                     ELSE NOT_FOUND

\* a batch of a file that cannot be read and a file with every field: two
\* records and two rows, the failure first
C4_Witness ==
    /\ pc = "idle"
    /\ Len(results) = 2 /\ Len(excel) = 2
    /\ results[1].filename = FILE_CORRUPT.name /\ results[1].status = "error"
    /\ results[2].filename = FILE_FULL.name /\ results[2].status = "success"
    /\ excel[1].error_fill /\ ~excel[2].error_fill
    /\ excel[2].name = PAR_NAME

\* C11: on the vision path (is_image_based true, images supplied), when the
\* vision call fails, the result carries every value the regex stage finds in
\* the supplied text, and error reports the failure.
C11_VisionFailureKeepsRegexValues ==
    (pc = "returned" /\ ~TextPath /\ outcome.requests # <<>> /\ AiCallFails)
        => /\ \A f \in Fields : Truthy(RegexStage[f]) => outcome.result[f] = RegexStage[f]
           /\ Truthy(outcome.result.error)

\* the text the PDF reader extracts from the file is minimal
MinimalPdf ==
    /\ get_file_type(uploaded_files[1].name) = "pdf"
    /\ extract_text_from_pdf(uploaded_files[1].bytes).is_tuple
    /\ extract_text_from_pdf(uploaded_files[1].bytes).is_image_based

\* C12: for a PDF whose extracted text is minimal, with a credential
\* configured, process_file sends one vision request and the record is not a
\* failure.
C12_MinimalPdfGoesToVision ==
    (pc = "file_done" /\ MinimalPdf /\ Truthy(env_key))
        => /\ Len(outcome.requests) = 1
           /\ outcome.requests[1].kind = "vision"
           /\ results[1].status # "error"

\* C13: in the record of a document, for each field, methods is 'none' exactly
\* when the field is absent, 'regex' or 'ai' otherwise; confidence (in
\* hundredths) lies between 0 and 100, is 0 for an absent field and is not 0
\* for an extracted one.
C13_MethodsAndConfidence ==
    pc = "file_done"
        => \A f \in Fields :
               /\ results[1].methods[f] \in {"none", "regex", "ai"}
               /\ results[1].methods[f] = "none" <=> results[1][f] = None
               /\ results[1].confidence[f] \in 0..100
               /\ results[1].confidence[f] = 0 <=> results[1][f] = None

\* C14: for empty or whitespace-only text process_resume returns name, email
\* and phone None, ai_used False and an error, whatever the credential and the
\* completion service.
C14_EmptyTextIsNoContent ==
    (pc = "returned" /\ strip(call.text) = <<>>)
        => /\ \A f \in Fields : outcome.result[f] = None
           /\ ~outcome.result.ai_used
           /\ Truthy(outcome.result.error)

\* C15: when the AI call for a document fails with 402 or with 429, the
\* record process_file returns has a status other than 'success', also when
\* the regex stage found some fields.
C15_CreditAndRateLimitSurfaced ==
    (pc = "file_done" /\ outcome.requests # <<>>
        /\ service.kind = "http" /\ service.status \in {402, 429})
        => results[1].status # "success"

\* C16: process_file returns a record for the document whatever happened, its
\* status is never left at 'processing', and when none of name, email and
\* phone was extracted the status is not 'success'.
C16_NoDataIsNeverSuccess ==
    pc = "file_done"
        => /\ Len(results) = 1
           /\ results[1].filename = uploaded_files[1].name
           /\ results[1].status \in {"success", "partial", "error", "credit_error"}
           /\ (\A f \in Fields : ~Truthy(results[1][f])) => results[1].status # "success"

\* the regex stage finds nothing and the completion holds null for every
\* field: the record is 'partial'
C16_Witness ==
    /\ pc = "file_done"
    /\ outcome.requests # <<>>
    /\ service.kind = "http" /\ service.status = 200
    /\ results[1].ai_used
    /\ results[1].error = None
    /\ \A f \in Fields : results[1][f] = None
    /\ results[1].status = "partial"

\* the lines of the text of the call, and the first line of its reference
\* block (0 when there is none)
CallLines == split(call.text, {"\n"})
ReferenceStart ==
    LET starts == {i \in 1..Len(CallLines) :
                      startswith(str_lower(CallLines[i]), <<"r","e","f","e","r">>)}
    IN  IF starts = {} THEN 0 ELSE SetMin(starts)

\* C17: when the subject's phone line comes before a reference block, the
\* phone the regex stage chooses is a number of the lines before the block,
\* never a number that occurs only inside the block, whatever the formats.
C17_SubjectPhoneBeforeReferences ==
    (pc = "regex_done" /\ ReferenceStart > 1
        /\ \E i \in 1..(ReferenceStart - 1) : CallLines[i] \in PhoneLines)
        => /\ Truthy(extracted.phone)
           /\ \E i \in 1..(ReferenceStart - 1) : contains(CallLines[i], extracted.phone.s)


\* a line that matches a section-header skip-word: its lower-case form equals
\* a skip-word or begins with a skip-word followed by a space or a colon
MatchesSkipWord(line) ==
    \E skip_word \in SKIP_WORDS :
        \/ str_lower(line) = skip_word
        \/ startswith(str_lower(line), skip_word \o <<" ">>)
        \/ startswith(str_lower(line), skip_word \o <<":">>)

\* C18: extract_name never returns a line that matches a section-header
\* skip-word, whatever the capitalization of the line.
C18_NameIsNeverAHeader ==
    (pc = "regex_done" /\ extracted.name # None) => ~MatchesSkipWord(extracted.name.s)


\* C19: in every result process_resume returns, a name that is not None is
\* trimmed and has 1 to 5 whitespace-separated tokens, whichever stage
\* produced it.
C19_NameTrimmedOneToFiveTokens ==
    (pc = "returned" /\ ~outcome.raised /\ outcome.result.name # None)
        => /\ strip(outcome.result.name.s) = outcome.result.name.s
           /\ Len(split_words(outcome.result.name.s)) \in 1..5


\* the derivation of a name from an email as C20 states it: the local part
\* is split at digits and at ".", "_" and "-", the segments that remain
\* (longer than one character) are capitalized and joined with spaces, and
\* the name is accepted exactly when at least two segments remain
NameSplitAtDigits(email) ==
    LET parts == split(split(email.s, {"@"})[1], Digits \cup {".", "_", "-"})
        long == SelectSeq(parts, LAMBDA part : Len(part) > 1)
        name_parts == [i \in 1..Len(long) |-> capitalize(long[i])]
    IN  IF Len(name_parts) >= 2 THEN Str(join(<<" ">>, name_parts)) ELSE None

\* C20: when no line qualifies as a name and an email was found, the name of
\* the regex stage is the one derived from the email local part by splitting
\* it at digits and at ".", "_" and "-", accepted iff two segments remain.
C20_EmailNameSplitsAtDigits ==
    (pc = "regex_done" /\ extracted.name = None /\ Truthy(extracted.email))
        => extracted.result.name = NameSplitAtDigits(extracted.email)


\* the known placeholder domains, and an address at one of them
PlaceholderDomains ==
    {<<"e","x","a","m","p","l","e",".","c","o","m">>, <<"t","e","s","t",".","c","o","m">>}
AtPlaceholderDomain(address) ==
    \E i \in 1..Len(address) :
        /\ address[i] = "@"
        /\ str_lower(SubSeq(address, i + 1, Len(address))) \in PlaceholderDomains

\* C21: extract_email never returns an address at a known placeholder domain
\* (example.com, test.com); a later address that is not a placeholder is
\* returned in its place.
C21_NoPlaceholderEmail ==
    (pc = "regex_done" /\ Truthy(extracted.email)) => ~AtPlaceholderDomain(extracted.email.s)


NonBlankPdf ==
    /\ get_file_type(uploaded_files[1].name) = "pdf"
    /\ ~extract_text_from_pdf(uploaded_files[1].bytes).raised
    /\ strip(extract_text_from_pdf(uploaded_files[1].bytes).text) # <<>>

\* C23: for a PDF whose text extraction gives text that is not blank,
\* process_file hands that text to process_resume and returns a record with
\* process_resume's name, email and phone and a status other than 'error'.
C23_PdfTextReachesProcessResume ==
    (pc = "file_done" /\ NonBlankPdf)
        => /\ call.text = extract_text_from_pdf(uploaded_files[1].bytes).text
           /\ \A f \in Fields : results[1][f] = outcome.result[f]
           /\ results[1].status # "error"


(***************************************************************************)
(* Properties of a run of main and of the session (checked under Spec).    *)
(***************************************************************************)
\* C24: with a credential configured, a run of main passes its credential
\* check without raising and reaches the upload stage.
C24_MainPassesCredentialCheck ==
    (Truthy(env_key) /\ pc # "start") => pc \in {"idle", "batch"}


\* C25: a call of process_file appends one 'file_complete' log entry for its
\* file on every exit path, so the summary counts the document processed and
\* successful + failed = total_files.
C25_OneFileCompleteEntryPerCall ==
    pc = "file_done"
        => /\ get_summary(logs).total_files = 1
           /\ get_summary(logs).successful + get_summary(logs).failed = get_summary(logs).total_files
           /\ \E i \in 1..Len(logs) :
                  logs[i].stage = "file_complete" /\ logs[i].filename = uploaded_files[1].name


\* C26: after any sequence of completed batch runs and 'Clear All' actions,
\* results and batch_status have the same length, entries at the same index
\* carry the same filename and the same status, and the status is a final
\* one, never 'processing'.
C26_ResultsMatchBatchStatus ==
    pc = "idle"
        => /\ Len(results) = Len(batch_status)
           /\ \A i \in 1..Len(results) :
                  /\ results[i].filename = batch_status[i].filename
                  /\ results[i].status = batch_status[i].status
                  /\ results[i].status \in {"success", "partial", "credit_error", "error"}

\* two batches of one document each have completed, one document failed and
\* the other did not
C26_Witness ==
    /\ pc = "idle"
    /\ Len(results) = 2
    /\ Len(logs) > 0
    /\ batch_status[1].status = "error"
    /\ batch_status[2].status = "success"
    /\ batch_status[1].filename # batch_status[2].filename


(***************************************************************************)
(* Properties of extract_text_from_pdf (checked under SpecPdf).            *)
(***************************************************************************)
\* the positions at which needle occurs in s
Occurrences(s, needle) ==
    {i \in 1..(Len(s) - Len(needle) + 1) : SubSeq(s, i, i + Len(needle) - 1) = needle}

\* the texts either reader gives for page i of the document
PageTexts(i) ==
    {pages[i].s : pages \in {p \in {uploaded_files[1].bytes.plumber_pages,
                                    uploaded_files[1].bytes.reader_pages} :
                                i <= Len(p) /\ p[i].t = "str"}}

\* C27: in the text extract_text_from_pdf returns, the text of each of the
\* first two pages appears at most once, and the first page's before the
\* second's, whichever reader succeeds, fails on a page or yields nothing.
C27_EachPageAtMostOnce ==
    (pc = "pdf_done" /\ ~pdf_text.raised)
        => /\ \A i \in 1..MAX_PAGES : \A page_text \in PageTexts(i) :
                  Cardinality(Occurrences(pdf_text.text, page_text)) <= 1
           /\ \A first \in PageTexts(1) : \A second \in PageTexts(2) :
                  \A i \in Occurrences(pdf_text.text, first) :
                      \A j \in Occurrences(pdf_text.text, second) : i < j

====
